---- MODULE Spec2Model ----
(***************************************************************************)
(* A model of sawtooth_poet/poet_consensus/consensus_state.py: the         *)
(* ConsensusState object (aggregate_local_mean, total_block_claim_count,   *)
(* _validators), its accessor get_validator_state, its update rule         *)
(* validator_did_claim_block, and serialize_to_bytes / parse_from_bytes    *)
(* over the values cbor.loads can hand back.                               *)
(***************************************************************************)
EXTENDS Integers, Sequences, FiniteSets, TLC

VARIABLES
    aggregate_local_mean,     \* self.aggregate_local_mean, a Python float
    total_block_claim_count,  \* self.total_block_claim_count, a Python int
    validators,               \* self._validators: identity -> ValidatorState
    op,                       \* the call made last: its name and arguments
    validator_state,          \* the record get_validator_state handed the last
                              \* call, when that call fetched one
    buffer,                   \* the bytes serialize_to_bytes returned last, or
                              \* the argument of the last parse_from_bytes
    error,                    \* the exception the last call ended in, if any
    means,                    \* local_mean of every claim on the object, kept
                              \* until parse_from_bytes is called on it
    parsed,                   \* parse_from_bytes has been called on the object
    calls,                    \* validator_did_claim_block calls made so far
    claimed,                  \* identity and PoET public key of every claim on
                              \* the object, kept like means
    inst,                     \* the ConsensusState objects of the validation
                              \* tasks: their attributes, _validators being
                              \* the address of a dict
    dicts,                    \* the dict objects: identity -> address of a
                              \* ValidatorState
    tuples,                   \* the ValidatorState objects, by address
    held,                     \* the records get_validator_state has handed to
                              \* callers: address, and fields when handed out
    solo                      \* for each task, the object its own calls make
                              \* of an object nobody else touches

\* The objects of the validation tasks (SpecForks).
refs == <<inst, dicts, tuples, held, solo>>

vars == <<aggregate_local_mean, total_block_claim_count, validators, op,
          validator_state, buffer, error, means, parsed, calls, claimed, refs>>

----------------------------------------------------------------------------
(* Bounds of the model.                                                    *)

\* Largest finite float, in halves: a sum above it overflows to infinity.
FloatMax == 8
\* Claims recorded on one object (Spec).
MaxClaims == 2
\* Claims recorded on an object before untrusted bytes are parsed (SpecParse).
MaxPreClaims == 1
\* Entries of a decoded validators mapping.
MaxEntries == 2
\* Calls made by the validation tasks together (SpecForks).
MaxForkCalls == 4

----------------------------------------------------------------------------
(* Python floats.  A finite float is a whole number of halves h (the value *)
(* h/2), which keeps a fractional part for int() to truncate; the other    *)
(* floats are inf, -inf and nan.                                           *)

Fin(h) == [k |-> "fin", h |-> h]
Inf == [k |-> "inf", h |-> 0]
NegInf == [k |-> "ninf", h |-> 0]
NaN == [k |-> "nan", h |-> 0]

\* a + b on floats: the sum, which overflows to an infinity.
FloatAdd(a, b) ==
    IF a.k = "nan" \/ b.k = "nan" THEN NaN
    ELSE IF a.k = "inf" THEN (IF b.k = "ninf" THEN NaN ELSE Inf)
    ELSE IF a.k = "ninf" THEN (IF b.k = "inf" THEN NaN ELSE NegInf)
    ELSE IF b.k \in {"inf", "ninf"} THEN b
    ELSE IF a.h + b.h > FloatMax THEN Inf
    ELSE IF a.h + b.h < 0 - FloatMax THEN NegInf
    ELSE Fin(a.h + b.h)

\* math.isfinite(x)
IsFinite(x) == x.k = "fin"

\* x < 0 on a float (false for nan)
FloatNegative(x) == x.k = "ninf" \/ (x.k = "fin" /\ x.h < 0)

----------------------------------------------------------------------------
(* The values cbor.loads returns, tagged by their Python type.  A dict is  *)
(* the sequence of its <<key, value>> items in iteration order, its keys   *)
(* distinct.                                                               *)

PyInt(n) == [t |-> "int", n |-> n]
PyFloat(f) == [t |-> "float", f |-> f]
PyStr(s) == [t |-> "str", s |-> s]
PyNone == [t |-> "none"]
PyList(items) == [t |-> "list", items |-> items]
PyDict(items) == [t |-> "dict", items |-> items]

\* key in d
DictHas(d, key) == \E i \in 1..Len(d.items) : d.items[i][1] = key

\* d[key], for a key of d
DictGet(d, key) ==
    d.items[CHOOSE i \in 1..Len(d.items) : d.items[i][1] = key][2]

\* The outcome of a conversion: the exception raised ("none": no exception)
\* and the value.
Raised(kind) == [err |-> kind, val |-> 0]
Value(v) == [err |-> "none", val |-> v]

\* float(s) for a str s
FloatOfStr(s) ==
    CASE s = "nan" -> Value(NaN)
      [] s = "inf" -> Value(Inf)
      [] s = "-inf" -> Value(NegInf)
      [] s = "1.5" -> Value(Fin(3))
      [] s = "2" -> Value(Fin(4))
      [] s = "-1" -> Value(Fin(0 - 2))
      [] OTHER -> Raised("ValueError")

\* int(s) for a str s
IntOfStr(s) ==
    CASE s = "2" -> Value(2)
      [] s = "-1" -> Value(0 - 1)
      [] OTHER -> Raised("ValueError")

\* float(x)
PyFloatOf(x) ==
    CASE x.t = "float" -> Value(x.f)
      [] x.t = "int" -> Value(Fin(2 * x.n))
      [] x.t = "str" -> FloatOfStr(x.s)
      [] OTHER -> Raised("TypeError")

\* int(x): a float is truncated towards zero; an infinity raises
\* OverflowError and nan raises ValueError.
PyIntOf(x) ==
    CASE x.t = "int" -> Value(x.n)
      [] x.t = "float" ->
            (CASE x.f.k = "nan" -> Raised("ValueError")
               [] x.f.k \in {"inf", "ninf"} -> Raised("OverflowError")
               [] OTHER -> Value(IF x.f.h >= 0 THEN x.f.h \div 2
                                 ELSE 0 - ((0 - x.f.h) \div 2)))
      [] x.t = "str" -> IntOfStr(x.s)
      [] OTHER -> Raised("TypeError")

\* str(key) of a dict key; the keys drawn are strs, small ints and None.
PyStrOf(x) ==
    CASE x.t = "str" -> x.s
      [] x.t = "int" /\ x.n = 1 -> "1"
      [] x.t = "int" /\ x.n = 2 -> "2"
      [] OTHER -> "None"

----------------------------------------------------------------------------
(* ValidatorState and ConsensusState.                                      *)

\* The namedtuple ValidatorState.
ValidatorState(kbcc, ppk, tbcc) ==
    [key_block_claim_count |-> kbcc,
     poet_public_key |-> ppk,
     total_block_claim_count |-> tbcc]

\* The object, as a value.
Self ==
    [aggregate_local_mean |-> aggregate_local_mean,
     total_block_claim_count |-> total_block_claim_count,
     validators |-> validators]

\* ConsensusState.__init__
NewConsensusState ==
    [aggregate_local_mean |-> Fin(0),
     total_block_claim_count |-> 0,
     validators |-> <<>>]

\* A plausible slip: the mapping is rebuilt around the one entry.
DictSetAlone(d, key, value) == [x \in {key} |-> value]

\* dict[key] = value
DictSet(d, key, value) ==
    [x \in DOMAIN d \cup {key} |-> IF x = key THEN value ELSE d[x]]

\* A plausible slip: the default record is stored whether or not the
\* identity has a record.
get_validator_state_always_default(self, id, ppk) ==
    [self |-> [self EXCEPT !.validators =
                  DictSet(self.validators, id, ValidatorState(0, ppk, 0))],
     ret |-> ValidatorState(0, ppk, 0)]

\* get_validator_state: the stored record, or the default record, which is
\* stored.  self is the object after the call, ret the record returned.
get_validator_state(self, id, ppk) ==
    IF id \in DOMAIN self.validators
    THEN [self |-> self, ret |-> self.validators[id]]
    ELSE [self |-> [self EXCEPT !.validators =
                        DictSet(self.validators, id, ValidatorState(0, ppk, 0))],
          ret |-> ValidatorState(0, ppk, 0)]

\* A plausible slip: the aggregate is overwritten instead of added to.
CountedOverwritten(self, local_mean) ==
    [self EXCEPT !.aggregate_local_mean = local_mean,
                 !.total_block_claim_count = @ + 1]

\* A plausible slip: the claim is not counted on the object.
CountedTotalKept(self, local_mean) ==
    [self EXCEPT !.aggregate_local_mean = FloatAdd(@, local_mean)]

\* The consensus state statistics after a claim (lines 141-142).
Counted(self, local_mean) ==
    [self EXCEPT !.aggregate_local_mean = FloatAdd(@, local_mean),
                 !.total_block_claim_count = @ + 1]

\* A plausible slip: the lifetime count is carried over unchanged.
NewTotalStale(old) == old.total_block_claim_count

\* The validator's new total_block_claim_count.
NewTotal(old) == old.total_block_claim_count + 1

\* A plausible slip: the per-key count goes on counting across a new key.
NewKeyCountNoReset(old, ppk) == old.key_block_claim_count + 1

\* A plausible slip: the per-key count starts over at every claim.
NewKeyCountAlwaysOne(old, ppk) == 1

\* The validator's new key_block_claim_count: one more under the same PoET
\* public key, 1 under another.
NewKeyCount(old, ppk) ==
    IF ppk = old.poet_public_key
    THEN old.key_block_claim_count + 1
    ELSE 1

\* validator_did_claim_block: the object after the call, and the record the
\* call fetched.
validator_did_claim_block(self, id, ppk, local_mean) ==
    LET got == get_validator_state(Counted(self, local_mean), id, ppk)
        old == got.ret
    IN [self |-> [got.self EXCEPT !.validators =
                     DictSet(got.self.validators, id,
                             ValidatorState(NewKeyCount(old, ppk), ppk,
                                            NewTotal(old)))],
        ret |-> old]

----------------------------------------------------------------------------
(* serialize_to_bytes and parse_from_bytes.  A byte string is identified   *)
(* with the value cbor.loads decodes it to.                                *)

\* The elements of a finite set, as a sequence.
RECURSIVE SeqOfSet(_)
SeqOfSet(S) ==
    IF S = {} THEN <<>>
    ELSE LET x == CHOOSE y \in S : TRUE
         IN <<x>> \o SeqOfSet(S \ {x})

\* A plausible slip: the two counts change places.
EncodeValidatorStateSwapped(vs) ==
    PyList(<<PyInt(vs.total_block_claim_count),
             PyStr(vs.poet_public_key),
             PyInt(vs.key_block_claim_count)>>)

\* What cbor makes of a ValidatorState: the plain list of its three fields.
EncodeValidatorState(vs) ==
    PyList(<<PyInt(vs.key_block_claim_count),
             PyStr(vs.poet_public_key),
             PyInt(vs.total_block_claim_count)>>)

\* serialize_to_bytes: cbor.dumps(self.__dict__)
serialize_to_bytes(self) ==
    LET ids == SeqOfSet(DOMAIN self.validators)
    IN PyDict(<<
         <<PyStr("aggregate_local_mean"), PyFloat(self.aggregate_local_mean)>>,
         <<PyStr("total_block_claim_count"), PyInt(self.total_block_claim_count)>>,
         <<PyStr("_validators"),
           PyDict([i \in 1..Len(ids) |->
                     <<PyStr(ids[i]),
                       EncodeValidatorState(self.validators[ids[i]])>>])>> >>)

\* ValidatorState._make(value): a tuple of the three items of an iterable;
\* TypeError for a value that cannot be iterated or has not three items.
\* (A str or a dict can be iterated too; none is drawn as an entry here.)
ValidatorState_make(value) ==
    IF value.t = "list" /\ Len(value.items) = 3
    THEN Value(value.items)
    ELSE Raised("TypeError")

\* A plausible slip: the two counts are not compared.
check_validator_state_unordered(vs) ==
    IF vs[1].t # "int" \/ vs[1].n < 0
    THEN "key_block_claim_count is invalid"
    ELSE IF vs[2].t # "str" \/ Len(vs[2].s) < 1
    THEN "poet_public_key is invalid"
    ELSE IF vs[3].t # "int" \/ vs[3].n < 0
    THEN "total_block_claim_count is invalid"
    ELSE ""

\* A plausible slip: the two counts are compared before the total is checked.
check_validator_state_reordered(vs) ==
    IF vs[1].t # "int" \/ vs[1].n < 0
    THEN "key_block_claim_count is invalid"
    ELSE IF vs[2].t # "str" \/ Len(vs[2].s) < 1
    THEN "poet_public_key is invalid"
    ELSE IF vs[3].t = "int" /\ vs[1].n > vs[3].n
    THEN "total_block_claim_count is less than key_block_claim_count"
    ELSE IF vs[3].t # "int" \/ vs[3].n < 0
    THEN "total_block_claim_count is invalid"
    ELSE ""

\* _check_validator_state: the message of the ValueError it raises, or ""
\* when it returns.  vs is <<key_block_claim_count, poet_public_key,
\* total_block_claim_count>> as decoded.
check_validator_state(vs) ==
    IF vs[1].t # "int" \/ vs[1].n < 0
    THEN "key_block_claim_count is invalid"
    ELSE IF vs[2].t # "str" \/ Len(vs[2].s) < 1
    THEN "poet_public_key is invalid"
    ELSE IF vs[3].t # "int" \/ vs[3].n < 0
    THEN "total_block_claim_count is invalid"
    ELSE IF vs[1].n > vs[3].n
    THEN "total_block_claim_count is less than key_block_claim_count"
    ELSE ""

\* The except clause of parse_from_bytes: the exception that leaves the call
\* when `kind` is raised inside its try block.
Reraised(kind) ==
    IF kind \in {"LookupError", "ValueError", "KeyError", "TypeError"}
    THEN "ValueError"
    ELSE kind

\* A call that ended: the object as it is left, and the exception.
Ended(self, kind, cause) ==
    [self |-> self, error |-> [kind |-> kind, cause |-> cause]]

\* A plausible slip: the entries are added to the mapping already held.
ResetValidatorsKept(self) == self

\* self._validators = {} (line 249)
ResetValidators(self) == [self EXCEPT !.validators = <<>>]

\* The loop of parse_from_bytes over validators.items(), from item i on.
RECURSIVE ParseValidators(_, _, _)
ParseValidators(self, items, i) ==
    IF i > Len(items) THEN Ended(self, "none", "")
    ELSE LET made == ValidatorState_make(items[i][2])
         IN IF made.err # "none"
            THEN Ended(self, Reraised(made.err), "_make")
            ELSE LET cause == check_validator_state(made.val)
                 IN IF cause # ""
                    THEN Ended(self, Reraised("ValueError"), cause)
                    ELSE ParseValidators(
                           [self EXCEPT !.validators =
                              DictSet(@, PyStrOf(items[i][1]),
                                      ValidatorState(made.val[1].n,
                                                     made.val[2].s,
                                                     made.val[3].n))],
                           items, i + 1)

\* parse_from_bytes: the object after the call and the exception the call
\* ended in ("none": it returned).
parse_from_bytes(self, self_dict) ==
    IF self_dict.t # "dict"
    THEN Ended(self, Reraised("ValueError"), "buffer is not a valid serialization")
    ELSE IF ~DictHas(self_dict, PyStr("aggregate_local_mean"))
    THEN Ended(self, Reraised("KeyError"), "aggregate_local_mean")
    ELSE LET alm == PyFloatOf(DictGet(self_dict, PyStr("aggregate_local_mean")))
         IN
    IF alm.err # "none"
    THEN Ended(self, Reraised(alm.err), "float()")
    ELSE LET self1 == [self EXCEPT !.aggregate_local_mean = alm.val]
         IN
    IF ~DictHas(self_dict, PyStr("total_block_claim_count"))
    THEN Ended(self1, Reraised("KeyError"), "total_block_claim_count")
    ELSE LET tbcc == PyIntOf(DictGet(self_dict, PyStr("total_block_claim_count")))
         IN
    IF tbcc.err # "none"
    THEN Ended(self1, Reraised(tbcc.err), "int()")
    ELSE LET self2 == [self1 EXCEPT !.total_block_claim_count = tbcc.val]
         IN
    IF ~DictHas(self_dict, PyStr("_validators"))
    THEN Ended(self2, Reraised("KeyError"), "_validators")
    ELSE LET vals == DictGet(self_dict, PyStr("_validators"))
         IN
    IF ~IsFinite(self2.aggregate_local_mean)
          \/ FloatNegative(self2.aggregate_local_mean)
    THEN Ended(self2, Reraised("ValueError"), "aggregate_local_mean is invalid")
    ELSE IF self2.total_block_claim_count < 0
    THEN Ended(self2, Reraised("ValueError"), "total_block_claim_count is invalid")
    ELSE IF vals.t # "dict"
    THEN Ended(self2, Reraised("ValueError"), "_validators is not a dict")
    ELSE ParseValidators(ResetValidators(self2), vals.items, 1)

----------------------------------------------------------------------------
(* The calls, as actions.                                                  *)

\* Validator identities and PoET public keys the registry hands in.
Ids == {"v1", "v2"}
Keys == {"", "A", "B"}
\* local_mean of a wait certificate.
LocalMeans == {Fin(1), Fin(FloatMax), Fin(0 - 2)}

NoRecord == ValidatorState(0 - 1, "", 0 - 1)
NoBuffer == PyNone
NoError == [kind |-> "none", cause |-> ""]
Call(name, id, ppk) == [name |-> name, id |-> id, key |-> ppk]

Store(self) ==
    /\ aggregate_local_mean' = self.aggregate_local_mean
    /\ total_block_claim_count' = self.total_block_claim_count
    /\ validators' = self.validators

Init ==
    /\ aggregate_local_mean = NewConsensusState.aggregate_local_mean
    /\ total_block_claim_count = NewConsensusState.total_block_claim_count
    /\ validators = NewConsensusState.validators
    /\ op = Call("init", "", "")
    /\ validator_state = NoRecord
    /\ buffer = NoBuffer
    /\ error = NoError
    /\ means = <<>>
    /\ parsed = FALSE
    /\ calls = 0
    /\ claimed = <<>>
    /\ inst = <<>>
    /\ dicts = <<>>
    /\ tuples = <<>>
    /\ held = {}
    /\ solo = <<>>

GetValidatorState ==
    \E id \in Ids, ppk \in Keys :
        LET r == get_validator_state(Self, id, ppk)
        IN /\ Store(r.self)
           /\ validator_state' = r.ret
           /\ op' = Call("get", id, ppk)
           /\ buffer' = NoBuffer
           /\ error' = NoError
           /\ UNCHANGED <<means, parsed, calls, claimed, refs>>

Claim(limit) ==
    /\ calls < limit
    /\ \E id \in Ids, ppk \in Keys, local_mean \in LocalMeans :
        LET r == validator_did_claim_block(Self, id, ppk, local_mean)
        IN /\ Store(r.self)
           /\ validator_state' = r.ret
           /\ op' = Call("claim", id, ppk)
           /\ buffer' = NoBuffer
           /\ error' = NoError
           /\ means' = (IF parsed THEN means ELSE Append(means, local_mean))
           /\ claimed' = (IF parsed THEN claimed
                          ELSE Append(claimed, [id |-> id, key |-> ppk]))
           /\ calls' = calls + 1
           /\ UNCHANGED <<parsed, refs>>

ValidatorDidClaimBlock == Claim(MaxClaims)

SerializeToBytes ==
    /\ buffer' = serialize_to_bytes(Self)
    /\ op' = Call("serialize", "", "")
    /\ error' = NoError
    /\ validator_state' = NoRecord
    /\ UNCHANGED <<aggregate_local_mean, total_block_claim_count, validators,
                   means, parsed, calls, claimed, refs>>

\* parse_from_bytes(b) on the object as it is.
Parse(b) ==
    LET r == parse_from_bytes(Self, b)
    IN /\ Store(r.self)
       /\ buffer' = b
       /\ error' = r.error
       /\ op' = Call("parse", "", "")
       /\ parsed' = TRUE
       /\ validator_state' = NoRecord
       /\ means' = <<>>
       /\ claimed' = <<>>
       /\ UNCHANGED <<calls, refs>>

\* A top-level mapping of the given fields; Missing leaves the field out.
Missing == [t |-> "missing"]
MakeBuffer(alm, tbcc, vals) ==
    PyDict(SelectSeq(<< <<PyStr("aggregate_local_mean"), alm>>,
                        <<PyStr("total_block_claim_count"), tbcc>>,
                        <<PyStr("_validators"), vals>> >>,
                     LAMBDA item : item[2] # Missing))

\* Encoded aggregate_local_mean fields: 1.5, -0.5, inf, nan, a str that is no
\* number, the int 2, or none at all.
AlmFields ==
    {PyFloat(Fin(3)), PyFloat(Fin(0 - 1)), PyFloat(Inf), PyFloat(NaN),
     PyStr("abc"), PyInt(2), Missing}

\* Encoded total_block_claim_count fields: 2, -1, -0.5, 2.5, inf, None, or
\* none at all.
TbccFields ==
    {PyInt(2), PyInt(0 - 1), PyFloat(Fin(0 - 1)), PyFloat(Fin(5)), PyFloat(Inf),
     PyNone, Missing}

\* Encoded validator records: two that satisfy the record checks, one for
\* each check that fails, a list of two items and None.
Record(kbcc, ppk, tbcc) == PyList(<<PyInt(kbcc), PyStr(ppk), PyInt(tbcc)>>)
GoodRecords == {Record(2, "A", 5), Record(1, "B", 1)}
BadRecords ==
    {Record(5, "A", 3), Record(0 - 1, "A", 1), Record(0, "", 0),
     Record(0, "A", 0 - 1), PyList(<<PyInt(0), PyStr("A")>>), PyNone}

\* Keys of the encoded validators mapping: 1 and "1" are distinct keys that
\* str() maps to one identity.
RecordKeys == {PyStr("v1"), PyStr("1"), PyInt(1)}

KeysOf(items) == {items[i][1] : i \in 1..Len(items)}

\* The items of the encoded validators mappings of n entries that all pass
\* the record checks.
RECURSIVE GoodItems(_)
GoodItems(n) ==
    IF n = 0 THEN {<<>>}
    ELSE {Append(items, <<key, value>>) :
            items \in GoodItems(n - 1), key \in RecordKeys,
            value \in GoodRecords}

\* The items of the encoded validators mappings of up to n entries.  An entry
\* that fails ends the walk, so only the last entry is drawn from all record
\* values.
RECURSIVE ValidatorItems(_)
ValidatorItems(n) ==
    IF n = 0 THEN {<<>>}
    ELSE {x \in {Append(items, <<key, value>>) :
                   items \in GoodItems(n - 1), key \in RecordKeys,
                   value \in GoodRecords \cup BadRecords} :
            Cardinality(KeysOf(x)) = Len(x)}
         \cup ValidatorItems(n - 1)

\* Bytes from an untrusted store.  A scalar field that fails ends the call
\* before the entries are walked, so every pair of scalar fields comes with
\* the mappings of one identity, and the longer mappings with scalar fields
\* that pass.
UntrustedBuffers ==
    {PyList(<<>>)}
    \cup {MakeBuffer(alm, tbcc, vals) :
            alm \in AlmFields, tbcc \in TbccFields,
            vals \in {Missing, PyNone, PyDict(<<>>)}
                     \cup {PyDict(<< <<PyStr("v1"), value>> >>) :
                             value \in GoodRecords \cup BadRecords}}
    \cup {MakeBuffer(PyFloat(Fin(3)), PyInt(2), PyDict(items)) :
            items \in ValidatorItems(MaxEntries)}

\* The bytes of a stored state as a later validation finds them: intact, or
\* damaged in one place.
StoredBuffers ==
    {MakeBuffer(PyFloat(Fin(3)), PyInt(2),
                PyDict(<< <<PyStr("v1"), Record(2, "A", 5)>> >>)),
     MakeBuffer(PyFloat(Fin(3)), PyInt(2),
                PyDict(<< <<PyStr("v2"), Record(1, "B", 1)>>,
                          <<PyStr("v1"), Record(5, "A", 3)>> >>)),
     MakeBuffer(PyFloat(Fin(3)), PyFloat(Inf), PyDict(<<>>)),
     MakeBuffer(PyFloat(Fin(0 - 1)), PyInt(2), Missing)}

\* parse_from_bytes of the bytes serialize_to_bytes has just returned.
ParseSerialized ==
    /\ op.name = "serialize"
    /\ Parse(buffer)

\* parse_from_bytes of stored bytes.
ParseStored == \E b \in StoredBuffers : Parse(b)

\* The calls made on an object before untrusted bytes are parsed into it.
GetBeforeParse == ~parsed /\ GetValidatorState
ClaimBeforeParse == ~parsed /\ Claim(MaxPreClaims)

\* parse_from_bytes of untrusted bytes.
ParseUntrusted == ~parsed /\ \E b \in UntrustedBuffers : Parse(b)

\* The life of one object: reads, claims, serialization and reloads.
Next ==
    \/ GetValidatorState
    \/ ValidatorDidClaimBlock
    \/ SerializeToBytes
    \/ ParseSerialized
    \/ ParseStored

Spec == Init /\ [][Next]_vars

\* One parse_from_bytes call of untrusted bytes on an object that has served
\* reads and claims.
NextParse ==
    \/ GetBeforeParse
    \/ ClaimBeforeParse
    \/ ParseUntrusted

SpecParse == Init /\ [][NextParse]_vars
----------------------------------------------------------------------------
(* Properties.                                                             *)

object == <<aggregate_local_mean, total_block_claim_count, validators>>

\* The invariants the data model states for a ConsensusState.
Valid(self) ==
    /\ IsFinite(self.aggregate_local_mean)
    /\ ~FloatNegative(self.aggregate_local_mean)
    /\ self.total_block_claim_count >= 0
    /\ \A id \in DOMAIN self.validators :
         /\ self.validators[id].key_block_claim_count >= 0
         /\ self.validators[id].poet_public_key # ""
         /\ self.validators[id].total_block_claim_count >= 0
         /\ self.validators[id].key_block_claim_count
               <= self.validators[id].total_block_claim_count

\* C1: a parse_from_bytes call that raises leaves aggregate_local_mean,
\* total_block_claim_count and the validator map as they were before the call.
C1_FailedParseLeavesObject ==
    [][(op'.name = "parse" /\ error'.kind # "none") => UNCHANGED object]_vars

\* An encoded number below zero, and one that is not finite.
EncodedNegative(x) ==
    \/ x.t = "int" /\ x.n < 0
    \/ x.t = "float" /\ FloatNegative(x.f)
EncodedNonFinite(x) == x.t = "float" /\ ~IsFinite(x.f)

\* An encoded validator record that breaks a bound of the data model.
EncodedRecordBroken(value) ==
    /\ value.t = "list"
    /\ Len(value.items) = 3
    /\ \/ EncodedNegative(value.items[1])
       \/ EncodedNegative(value.items[3])
       \/ value.items[2] = PyStr("")
       \/ /\ value.items[1].t = "int"
          /\ value.items[3].t = "int"
          /\ value.items[1].n > value.items[3].n

\* The encoded state breaks a bound of the data model.
EncodedStateBroken(b) ==
    /\ b.t = "dict"
    /\ \/ /\ DictHas(b, PyStr("aggregate_local_mean"))
          /\ LET alm == DictGet(b, PyStr("aggregate_local_mean"))
             IN EncodedNegative(alm) \/ EncodedNonFinite(alm)
       \/ /\ DictHas(b, PyStr("total_block_claim_count"))
          /\ EncodedNegative(DictGet(b, PyStr("total_block_claim_count")))
       \/ /\ DictHas(b, PyStr("_validators"))
          /\ LET vals == DictGet(b, PyStr("_validators"))
             IN /\ vals.t = "dict"
                /\ \E i \in 1..Len(vals.items) :
                     EncodedRecordBroken(vals.items[i][2])

\* C2: parse_from_bytes raises whenever the encoded state has a negative or
\* non-finite aggregate_local_mean, a negative total_block_claim_count, or a
\* validator entry with a negative count, an empty poet_public_key or
\* key_block_claim_count > total_block_claim_count.
C2_BrokenStateIsRejected ==
    (op.name = "parse" /\ EncodedStateBroken(buffer)) => error.kind # "none"

\* C3: every parse_from_bytes call that fails ends in ValueError.
C3_OnlyValueErrorEscapes ==
    op.name = "parse" => error.kind \in {"none", "ValueError"}

\* C4: a claim under the PoET public key of the stored record {k, P, t}
\* leaves the record {k + 1, P, t + 1}.
C4_SameKeyClaim ==
    [][(/\ op'.name = "claim"
        /\ op'.id \in DOMAIN validators
        /\ validators[op'.id].poet_public_key = op'.key)
       => validators'[op'.id] =
            ValidatorState(validators[op'.id].key_block_claim_count + 1,
                           validators[op'.id].poet_public_key,
                           validators[op'.id].total_block_claim_count + 1)]_vars

\* The claim of the design's example: {2, "A", 5} claimed under "A" has
\* become {3, "A", 6}.
C4_Witness ==
    /\ op = Call("claim", "v1", "A")
    /\ validator_state = ValidatorState(2, "A", 5)
    /\ validators["v1"] = ValidatorState(3, "A", 6)

\* C5: a claim under a PoET public key Q other than that of the stored record
\* {k, P, t} leaves the record {1, Q, t + 1}.
C5_KeyRotationClaim ==
    [][(/\ op'.name = "claim"
        /\ op'.id \in DOMAIN validators
        /\ validators[op'.id].poet_public_key # op'.key)
       => validators'[op'.id] =
            ValidatorState(1, op'.key,
                           validators[op'.id].total_block_claim_count + 1)]_vars

\* The rotation of the design's example: {2, "A", 5} claimed under "B" has
\* become {1, "B", 6}.
C5_Witness ==
    /\ op = Call("claim", "v1", "B")
    /\ validator_state = ValidatorState(2, "A", 5)
    /\ validators["v1"] = ValidatorState(1, "B", 6)

\* m_1 + ... + m_N in float arithmetic, from the 0.0 of a new object.
RECURSIVE FloatSum(_)
FloatSum(ms) ==
    IF ms = <<>> THEN Fin(0)
    ELSE FloatAdd(FloatSum(SubSeq(ms, 1, Len(ms) - 1)), ms[Len(ms)])

\* C6: on an object used since construction for reads and claims only, after
\* N claims with local means m_1..m_N, total_block_claim_count = N and
\* aggregate_local_mean = m_1 + ... + m_N.
C6_AggregateAccounting ==
    ~parsed =>
        /\ total_block_claim_count = Len(means)
        /\ aggregate_local_mean = FloatSum(means)

\* Two claims with different local means by two validators.
C6_Witness ==
    /\ ~parsed
    /\ means = <<Fin(1), Fin(0 - 2)>>
    /\ DOMAIN validators = {"v1", "v2"}
    /\ validators["v1"].total_block_claim_count = 1
    /\ validators["v2"].total_block_claim_count = 1
    /\ aggregate_local_mean = Fin(0 - 1)
    /\ total_block_claim_count = 2

\* C7: every stored validator record has key_block_claim_count >= 0,
\* total_block_claim_count >= 0 and key_block_claim_count <=
\* total_block_claim_count.
C7_RecordCounts ==
    \A id \in DOMAIN validators :
        /\ validators[id].key_block_claim_count >= 0
        /\ validators[id].total_block_claim_count >= 0
        /\ validators[id].key_block_claim_count
              <= validators[id].total_block_claim_count

\* A record loaded by parse_from_bytes and then claimed on under its key,
\* beside a default record.
C7_Witness ==
    /\ parsed
    /\ op.name = "get"
    /\ DOMAIN validators = {"v1", "v2"}
    /\ validators["v1"] = ValidatorState(3, "A", 6)
    /\ validators["v2"] = ValidatorState(0, "B", 0)

\* parse_from_bytes of the bytes of the object, into `target`, returns and
\* leaves in target the fields of the object.
RoundTripsInto(target) ==
    LET r == parse_from_bytes(target, serialize_to_bytes(Self))
    IN /\ r.error.kind = "none"
       /\ r.self.aggregate_local_mean = aggregate_local_mean
       /\ r.self.total_block_claim_count = total_block_claim_count
       /\ DOMAIN r.self.validators = DOMAIN validators
       /\ \A id \in DOMAIN validators :
            /\ r.self.validators[id].key_block_claim_count
                  = validators[id].key_block_claim_count
            /\ r.self.validators[id].poet_public_key
                  = validators[id].poet_public_key
            /\ r.self.validators[id].total_block_claim_count
                  = validators[id].total_block_claim_count

\* C8: for every valid state, parse_from_bytes(serialize_to_bytes()) returns
\* and yields the same aggregate_local_mean, total_block_claim_count and
\* validator map, into a new object and into the object itself; and
\* serialize_to_bytes leaves the object as it is.
C8_RoundTrip ==
    /\ [](Valid(Self) =>
            RoundTripsInto(NewConsensusState) /\ RoundTripsInto(Self))
    /\ [][op'.name = "serialize" => UNCHANGED object]_vars

\* A valid state with two validators, reloaded from its own bytes.
C8_Witness ==
    /\ op.name = "parse"
    /\ Valid(Self)
    /\ buffer = serialize_to_bytes(Self)
    /\ error.kind = "none"
    /\ DOMAIN validators = {"v1", "v2"}
    /\ validators["v1"].key_block_claim_count
          < validators["v1"].total_block_claim_count

\* C9: get_validator_state for an identity without a record returns and
\* stores {0, <given key>, 0}; for an identity with a record it returns that
\* record, whatever key is given; it changes neither aggregate nor any other
\* record.
C9_GetValidatorState ==
    [][op'.name = "get" =>
         /\ aggregate_local_mean' = aggregate_local_mean
         /\ total_block_claim_count' = total_block_claim_count
         /\ DOMAIN validators' = DOMAIN validators \cup {op'.id}
         /\ \A id \in DOMAIN validators : validators'[id] = validators[id]
         /\ validator_state' = validators'[op'.id]
         /\ op'.id \notin DOMAIN validators
               => validator_state' = ValidatorState(0, op'.key, 0)]_vars

\* A later read under another key: the default record made under "A" is
\* returned to a read under "B".
C9_Witness ==
    /\ op = Call("get", "v1", "B")
    /\ validator_state = ValidatorState(0, "A", 0)
    /\ validators["v1"] = ValidatorState(0, "A", 0)

\* The identities the encoded validators mapping names.
EncodedIds(vals) == {PyStrOf(vals.items[i][1]) : i \in 1..Len(vals.items)}

\* C10: after a parse_from_bytes call that returns, the aggregates are those
\* of the bytes, the validator map holds the identities of the bytes and no
\* other, and every record it holds is a record the bytes give that identity.
C10_ParseReplaces ==
    (op.name = "parse" /\ error.kind = "none") =>
        LET vals == DictGet(buffer, PyStr("_validators"))
        IN /\ Value(aggregate_local_mean)
                = PyFloatOf(DictGet(buffer, PyStr("aggregate_local_mean")))
           /\ Value(total_block_claim_count)
                = PyIntOf(DictGet(buffer, PyStr("total_block_claim_count")))
           /\ DOMAIN validators = EncodedIds(vals)
           /\ \A id \in DOMAIN validators :
                \E i \in 1..Len(vals.items) :
                    /\ PyStrOf(vals.items[i][1]) = id
                    /\ vals.items[i][2] = EncodeValidatorState(validators[id])

\* Bytes that name one identity, parsed into an object that held a claim and
\* a record of another identity.
C10_Witness ==
    /\ op.name = "parse"
    /\ error.kind = "none"
    /\ calls = 1
    /\ DOMAIN validators = {"1"}
    /\ validators["1"] = ValidatorState(1, "B", 1)
\* C11: no stored validator record has an empty poet_public_key: a call that
\* would create or replace a record with one raises and stores nothing.
C11_NoEmptyPublicKey ==
    /\ \A id \in DOMAIN validators : validators[id].poet_public_key # ""
    /\ (op.name \in {"get", "claim"} /\ op.key = ""
          /\ validator_state.poet_public_key = "")
         => error.kind # "none"

\* C14: on an object that started valid and has only recorded claims whose
\* local_mean is finite and not negative, aggregate_local_mean is finite and
\* not negative.
C14_AggregateStaysFinite ==
    (~parsed /\ \A i \in 1..Len(means) :
                    IsFinite(means[i]) /\ ~FloatNegative(means[i]))
      => IsFinite(aggregate_local_mean) /\ ~FloatNegative(aggregate_local_mean)

\* C18: a claim for validator v changes aggregate_local_mean,
\* total_block_claim_count and the record of v only: every other record is
\* kept, no identity is removed, and v is the only identity that can be new.
C18_ClaimFrame ==
    [][op'.name = "claim" =>
         /\ DOMAIN validators' = DOMAIN validators \cup {op'.id}
         /\ \A id \in DOMAIN validators \ {op'.id} :
              validators'[id] = validators[id]]_vars

\* A first claim of v2 beside the record of v1, which a claim had made.
C18_Witness ==
    /\ op = Call("claim", "v2", "B")
    /\ validator_state = ValidatorState(0, "B", 0)
    /\ DOMAIN validators = {"v1", "v2"}
    /\ validators["v2"] = ValidatorState(1, "B", 1)
    /\ validators["v1"] = ValidatorState(1, "A", 1)
    /\ total_block_claim_count = 2

\* The claims of one validator, oldest first.
ClaimsOf(id) == SelectSeq(claimed, LAMBDA c : c.id = id)

\* The number of items at the end of s that carry the key of its last item.
RECURSIVE TrailingRun(_)
TrailingRun(s) ==
    IF Len(s) <= 1 THEN Len(s)
    ELSE IF s[Len(s) - 1].key = s[Len(s)].key
    THEN 1 + TrailingRun(SubSeq(s, 1, Len(s) - 1))
    ELSE 1

RECURSIVE TotalOver(_, _)
TotalOver(vs, S) ==
    IF S = {} THEN 0
    ELSE LET x == CHOOSE y \in S : TRUE
         IN vs[x].total_block_claim_count + TotalOver(vs, S \ {x})

\* C17: on an object used through get_validator_state and
\* validator_did_claim_block only, total_block_claim_count of the object is
\* the sum of total_block_claim_count over the stored records.
C17_CounterReconciliation ==
    ~parsed =>
      total_block_claim_count = TotalOver(validators, DOMAIN validators)

C17_Witness ==
    /\ ~parsed
    /\ op.name = "claim"
    /\ DOMAIN validators = {"v1", "v2"}
    /\ validators["v1"].total_block_claim_count = 1
    /\ validators["v2"].total_block_claim_count = 1
    /\ total_block_claim_count = 2

\* The second half of C17: parse_from_bytes returns and leaves the two
\* counters different.
C17_ParseBreaksEquality ==
    /\ op.name = "parse"
    /\ error.kind = "none"
    /\ total_block_claim_count # TotalOver(validators, DOMAIN validators)

----------------------------------------------------------------------------
(* The validation steps of parse_from_bytes, each stated on the decoded    *)
(* bytes alone: the cause a step fails with, or "" when the bytes do not   *)
(* violate it.                                                             *)

\* The first cause of a sequence of causes, or "".
FirstCause(causes) ==
    IF \E i \in 1..Len(causes) : causes[i] # ""
    THEN causes[CHOOSE i \in 1..Len(causes) :
                  /\ causes[i] # ""
                  /\ \A j \in 1..(i - 1) : causes[j] = ""]
    ELSE ""

Field(b, name) ==
    IF b.t = "dict" /\ DictHas(b, PyStr(name))
    THEN DictGet(b, PyStr(name))
    ELSE Missing

TopLevelStep(b) ==
    IF b.t # "dict" THEN "buffer is not a valid serialization" ELSE ""

AlmParseStep(b) ==
    LET f == Field(b, "aggregate_local_mean")
    IN IF f = Missing THEN "aggregate_local_mean"
       ELSE IF PyFloatOf(f).err # "none" THEN "float()"
       ELSE ""

AlmRangeStep(b) ==
    LET f == Field(b, "aggregate_local_mean")
    IN IF f # Missing /\ PyFloatOf(f).err = "none"
            /\ (~IsFinite(PyFloatOf(f).val) \/ FloatNegative(PyFloatOf(f).val))
       THEN "aggregate_local_mean is invalid"
       ELSE ""

TbccParseStep(b) ==
    LET f == Field(b, "total_block_claim_count")
    IN IF f = Missing THEN "total_block_claim_count"
       ELSE IF PyIntOf(f).err # "none" THEN "int()"
       ELSE ""

TbccRangeStep(b) ==
    LET f == Field(b, "total_block_claim_count")
    IN IF f # Missing /\ PyIntOf(f).err = "none" /\ PyIntOf(f).val < 0
       THEN "total_block_claim_count is invalid"
       ELSE ""

ValidatorsPresentStep(b) ==
    IF Field(b, "_validators") = Missing THEN "_validators" ELSE ""

ValidatorsMappingStep(b) ==
    LET f == Field(b, "_validators")
    IN IF f # Missing /\ f.t # "dict" THEN "_validators is not a dict" ELSE ""

\* The record checks of one entry, in the order key count, public key, total
\* count, key count <= total count.
EntryStep(value) ==
    LET made == ValidatorState_make(value)
        vs == made.val
    IN IF made.err # "none" THEN "_make"
       ELSE FirstCause(<<
              IF vs[1].t # "int" \/ vs[1].n < 0
              THEN "key_block_claim_count is invalid" ELSE "",
              IF vs[2].t # "str" \/ Len(vs[2].s) < 1
              THEN "poet_public_key is invalid" ELSE "",
              IF vs[3].t # "int" \/ vs[3].n < 0
              THEN "total_block_claim_count is invalid" ELSE "",
              IF vs[1].t = "int" /\ vs[3].t = "int" /\ vs[1].n > vs[3].n
              THEN "total_block_claim_count is less than key_block_claim_count"
              ELSE "" >>)

\* The entries, in the order of the mapping.
EntriesStep(b) ==
    LET f == Field(b, "_validators")
    IN IF f # Missing /\ f.t = "dict"
       THEN FirstCause([i \in 1..Len(f.items) |-> EntryStep(f.items[i][2])])
       ELSE ""

\* The order of the specification: mapping; aggregate_local_mean parses, is
\* finite and >= 0; total_block_claim_count parses and is >= 0; validators is
\* a mapping; the entries.
SpecOrder(b) ==
    <<TopLevelStep(b), AlmParseStep(b), AlmRangeStep(b), TbccParseStep(b),
      TbccRangeStep(b), ValidatorsPresentStep(b), ValidatorsMappingStep(b),
      EntriesStep(b)>>

\* The order of the code: mapping; the three fields are read and converted;
\* then the range of aggregate_local_mean, the range of
\* total_block_claim_count, validators is a mapping; the entries.
CodeOrder(b) ==
    <<TopLevelStep(b), AlmParseStep(b), TbccParseStep(b),
      ValidatorsPresentStep(b), AlmRangeStep(b), TbccRangeStep(b),
      ValidatorsMappingStep(b), EntriesStep(b)>>

\* C12 as stated: parse_from_bytes reports the earliest violated step in the
\* order mapping, aggregate_local_mean (parses, finite, >= 0),
\* total_block_claim_count (parses, >= 0), validators is a mapping, entries.
C12_FailFastOrder ==
    op.name = "parse" => error.cause = FirstCause(SpecOrder(buffer))

\* C12 amended: parse_from_bytes reports the earliest violated step in the
\* order mapping, aggregate_local_mean parses, total_block_claim_count
\* parses, validators is present, aggregate_local_mean is finite and >= 0,
\* total_block_claim_count is >= 0, validators is a mapping, and the entries
\* in the order of the mapping, each by 3-item record, key count, public key,
\* total count, key count <= total count.
C12_FailFastCodeOrder ==
    op.name = "parse" => error.cause = FirstCause(CodeOrder(buffer))

\* Bytes with a negative aggregate_local_mean and no total_block_claim_count:
\* the call fails for the field that is missing.
C12_Witness ==
    /\ op.name = "parse"
    /\ AlmRangeStep(buffer) # ""
    /\ TbccParseStep(buffer) = "total_block_claim_count"
    /\ error.kind = "ValueError"
    /\ error.cause = "total_block_claim_count"

----------------------------------------------------------------------------
(* Objects by reference.  Two validation tasks hold a ConsensusState each  *)
(* and load the bytes of one parent state into it.  An attribute that      *)
(* holds a dict or a ValidatorState holds its address, so that a write     *)
(* through one reference shows through every other one.                    *)

Tasks == {1, 2}
\* The PoET public keys of the claims, and of the get_validator_state calls.
ForkKeys == {"A", "B"}
ForkGetKeys == {"A"}
ForkMean == Fin(1)

\* The parent state whose bytes the tasks load: it has recorded one claim,
\* of v1; v2 is unseen.
ParentState ==
    validator_did_claim_block(NewConsensusState, "v1", "A", ForkMean).self

\* The object of task i, as a value.
View(i) ==
    LET d == dicts[inst[i].validators]
    IN [aggregate_local_mean |-> inst[i].aggregate_local_mean,
        total_block_claim_count |-> inst[i].total_block_claim_count,
        validators |-> [id \in DOMAIN d |-> tuples[d[id]]]]

\* ValidatorState(...): a new tuple object.
NewTuple(ts, vs) == [tuples |-> Append(ts, vs), addr |-> Len(ts) + 1]

\* A plausible slip: the record stored for the validator is written over.
ReplaceRecordInPlace(ts, old, vs) ==
    [tuples |-> [ts EXCEPT ![old] = vs], addr |-> old]

\* The record that takes the place of the one at address old (lines
\* 176-180): a new tuple object, a namedtuple having no field assignment.
ReplaceRecord(ts, old, vs) == NewTuple(ts, vs)

\* A plausible slip: one dict, that of the first object, serves every
\* object.
NewDictShared(ds) == [dicts |-> [ds EXCEPT ![1] = <<>>], addr |-> 1]

\* {}: a new dict object (line 249).
NewDict(ds) == [dicts |-> Append(ds, <<>>), addr |-> Len(ds) + 1]

\* get_validator_state on the dict at address d: the heap after the call
\* and the address of the record returned.
ref_get_validator_state(ts, ds, d, id, ppk) ==
    IF id \in DOMAIN ds[d]
    THEN [tuples |-> ts, dicts |-> ds, addr |-> ds[d][id]]
    ELSE LET n == NewTuple(ts, ValidatorState(0, ppk, 0))
         IN [tuples |-> n.tuples,
             dicts |-> [ds EXCEPT ![d] = DictSet(@, id, n.addr)],
             addr |-> n.addr]

\* The loop of parse_from_bytes, by reference: a tuple object for each
\* record vs holds, stored in the dict at address d.
RECURSIVE StoreAll(_, _, _, _, _)
StoreAll(ts, ds, d, vs, ids) ==
    IF ids = <<>> THEN [tuples |-> ts, dicts |-> ds]
    ELSE LET n == NewTuple(ts, vs[Head(ids)])
         IN StoreAll(n.tuples, [ds EXCEPT ![d] = DictSet(@, Head(ids), n.addr)],
                     d, vs, Tail(ids))

InitForks ==
    /\ aggregate_local_mean = NewConsensusState.aggregate_local_mean
    /\ total_block_claim_count = NewConsensusState.total_block_claim_count
    /\ validators = NewConsensusState.validators
    /\ op = Call("init", "", "")
    /\ validator_state = NoRecord
    /\ buffer = serialize_to_bytes(ParentState)
    /\ error = NoError
    /\ means = <<>>
    /\ parsed = FALSE
    /\ calls = 0
    /\ claimed = <<>>
    /\ inst = [i \in Tasks |->
                 [aggregate_local_mean |-> NewConsensusState.aggregate_local_mean,
                  total_block_claim_count |->
                      NewConsensusState.total_block_claim_count,
                  validators |-> i]]
    /\ dicts = [i \in Tasks |-> <<>>]
    /\ tuples = <<>>
    /\ held = {}
    /\ solo = [i \in Tasks |-> NewConsensusState]

\* What a call of a task leaves alone, and the count of calls.
ForkFrame ==
    /\ calls < MaxForkCalls
    /\ calls' = calls + 1
    /\ UNCHANGED <<aggregate_local_mean, total_block_claim_count, validators,
                   validator_state, buffer, means, parsed, claimed>>

\* Task i calls parse_from_bytes with the parent bytes.  The scalar
\* attributes are assigned as far as the call gets; the dict is a new one
\* when the call gets to line 249.
ForkParse ==
    \E i \in Tasks :
        LET r == parse_from_bytes(View(i), buffer)
            reset == FirstCause(SubSeq(CodeOrder(buffer), 1, 7)) = ""
            n == NewDict(dicts)
            stored == StoreAll(tuples, n.dicts, n.addr, r.self.validators,
                               SeqOfSet(DOMAIN r.self.validators))
        IN /\ ForkFrame
           /\ inst' = [inst EXCEPT ![i] =
                         [aggregate_local_mean |-> r.self.aggregate_local_mean,
                          total_block_claim_count |->
                              r.self.total_block_claim_count,
                          validators |-> IF reset THEN n.addr ELSE @.validators]]
           /\ dicts' = (IF reset THEN stored.dicts ELSE dicts)
           /\ tuples' = (IF reset THEN stored.tuples ELSE tuples)
           /\ solo' = [solo EXCEPT ![i] = parse_from_bytes(@, buffer).self]
           /\ op' = Call("parse", "", "")
           /\ error' = r.error
           /\ UNCHANGED held

\* Task i calls get_validator_state and keeps the record it is handed.
ForkGet ==
    \E i \in Tasks, id \in Ids, ppk \in ForkGetKeys :
        LET got == ref_get_validator_state(tuples, dicts, inst[i].validators,
                                           id, ppk)
        IN /\ ForkFrame
           /\ tuples' = got.tuples
           /\ dicts' = got.dicts
           /\ held' = held \cup {[addr |-> got.addr,
                                   fields |-> got.tuples[got.addr]]}
           /\ solo' = [solo EXCEPT ![i] = get_validator_state(@, id, ppk).self]
           /\ op' = Call("get", id, ppk)
           /\ error' = NoError
           /\ UNCHANGED inst

\* Task i calls validator_did_claim_block.
ForkClaim ==
    \E i \in Tasks, id \in Ids, ppk \in ForkKeys :
        LET counted == Counted(inst[i], ForkMean)
            got == ref_get_validator_state(tuples, dicts, counted.validators,
                                           id, ppk)
            old == got.tuples[got.addr]
            n == ReplaceRecord(got.tuples, got.addr,
                               ValidatorState(NewKeyCount(old, ppk), ppk,
                                              NewTotal(old)))
        IN /\ ForkFrame
           /\ inst' = [inst EXCEPT ![i] = counted]
           /\ tuples' = n.tuples
           /\ dicts' = [got.dicts EXCEPT ![counted.validators] =
                          DictSet(@, id, n.addr)]
           /\ solo' = [solo EXCEPT ![i] =
                         validator_did_claim_block(@, id, ppk, ForkMean).self]
           /\ op' = Call("claim", id, ppk)
           /\ error' = NoError
           /\ UNCHANGED held

\* The calls of the two tasks, in any interleaving.
NextForks ==
    \/ ForkParse
    \/ ForkGet
    \/ ForkClaim

SpecForks == InitForks /\ [][NextForks]_vars

\* C13: a record get_validator_state has handed out keeps its three fields
\* through every later validator_did_claim_block, get_validator_state and
\* parse_from_bytes call.
C13_SnapshotStability ==
    \A h \in held : tuples[h.addr] = h.fields

\* Task 1 was handed the record {1, A, 1} of v1 and has then claimed a block
\* for v1: the object holds {2, A, 2}, the record handed out is as it was.
C13_Witness ==
    /\ op = Call("claim", "v1", "A")
    /\ "v1" \in DOMAIN View(1).validators
    /\ View(1).validators["v1"] = ValidatorState(2, "A", 2)
    /\ \E h \in held :
         /\ h.fields = ValidatorState(1, "A", 1)
         /\ tuples[h.addr] = h.fields

\* C15: each task's object is the object its own calls make of an object
\* that nobody else touches.
C15_ForkIsolation ==
    \A i \in Tasks : View(i) = solo[i]

\* Both tasks have loaded the parent {v1: {1, A, 1}} into a dict of their
\* own and have claimed a block for v1, under different keys.
C15_Witness ==
    /\ \A i \in Tasks : inst[i].validators \notin Tasks
    /\ \A i \in Tasks : DOMAIN View(i).validators = {"v1"}
    /\ View(1).validators["v1"] = ValidatorState(2, "A", 2)
    /\ View(2).validators["v1"] = ValidatorState(1, "B", 2)
====
